---------------------------- MODULE Spec2Model ----------------------------
(***************************************************************************)
(* Model of the sheets service: the filter predicate engine (filters.py),  *)
(* row normalisation (utils.py), read cache, pagination and upsert         *)
(* (services.py) and the two HTTP handlers (views.py).                     *)
(*                                                                         *)
(* Python values are records [t, b, n, s, items]; t is the Python type.    *)
(* Python strings are TLA+ strings, taken apart with Len and SubSeq.       *)
(* A call that may raise returns [raised, val]: raised = "" when the call  *)
(* returned val, and the exception's name otherwise.                       *)
(***************************************************************************)
EXTENDS Integers, Sequences, FiniteSets, TLC

VARIABLES
    sheet,      \* the remote table: rows of cells, row 1 the header row
    cache,      \* _READ_CACHE entry of the one (spreadsheet, range) key
    now,        \* time.time(), in seconds
    req,        \* the request being served last: handler, inputs, snapshot
    calls,      \* the store calls the last request issued, in order
    ups,        \* what upsert_rows did in the last request
    resp,       \* the HTTP response of the last request
    fcall,      \* the last direct call of a pure function: name, inputs, result
    settings,   \* django.conf.settings: GOOGLE_SERVICE_ACCOUNT_INFO_B64
    _CACHED_CREDS,    \* the module global of services.py: None or credentials
    _CACHED_SERVICE,  \* the module global of services.py: None or a client
    built,      \* how many clients build() constructed in this process
    threads     \* each request thread inside get_sheets_service: position, locals

\* what the handlers work on, and what get_sheets_service works on
hvars == <<sheet, cache, now, req, calls, ups, resp, fcall>>
svars == <<settings, _CACHED_CREDS, _CACHED_SERVICE, built, threads>>

vars == <<sheet, cache, now, req, calls, ups, resp, fcall, settings,
          _CACHED_CREDS, _CACHED_SERVICE, built, threads>>

---------------------------------------------------------------------------
(* Python values *)

PyNone == [t |-> "none", b |-> FALSE, n |-> 0, s |-> "", items |-> <<>>]
Absent == [t |-> "absent", b |-> FALSE, n |-> 0, s |-> "", items |-> <<>>]
B(x) == [t |-> "bool", b |-> x, n |-> 0, s |-> "", items |-> <<>>]
N(x) == [t |-> "num", b |-> FALSE, n |-> x, s |-> "", items |-> <<>>]
S(x) == [t |-> "str", b |-> FALSE, n |-> 0, s |-> x, items |-> <<>>]
L(xs) == [t |-> "list", b |-> FALSE, n |-> 0, s |-> "", items |-> xs]
\* a datetime, as the number yyyymmdd (only _to_datetime makes one)
D(x) == [t |-> "dt", b |-> FALSE, n |-> x, s |-> "", items |-> <<>>]

\* d.get(key, default) and d.get(key) on a key that may be absent
Get(v, default) == IF v.t = "absent" THEN default ELSE v

Ret(v) == [raised |-> "", val |-> v]
Raise(e) == [raised |-> e, val |-> FALSE]

---------------------------------------------------------------------------
(* Python strings: the characters the model uses, in code-point order *)

Alphabet == " ',-/0123456789ABCDEFGHIJKLMNOPQRSTUVWXYZ[]_abcdefghijklmnopqrstuvwxyz"
Digits == "0123456789"
UpperCase == "ABCDEFGHIJKLMNOPQRSTUVWXYZ"
LowerCase == "abcdefghijklmnopqrstuvwxyz"

Char(s, i) == SubSeq(s, i, i)

\* the first position of character c in s, 0 when it is not there
RECURSIVE IndexFrom(_, _, _)
IndexFrom(c, s, i) ==
    IF i > Len(s) THEN 0
    ELSE IF Char(s, i) = c THEN i
    ELSE IndexFrom(c, s, i + 1)

IndexOf(c, s) == IndexFrom(c, s, 1)

Ord(c) == IndexOf(c, Alphabet)

IsDigit(c) == IndexOf(c, Digits) > 0

\* str.lower()
RECURSIVE StrLower(_)
StrLower(s) ==
    IF Len(s) = 0 THEN ""
    ELSE LET c == Char(s, 1)
             u == IndexOf(c, UpperCase)
         IN (IF u > 0 THEN Char(LowerCase, u) ELSE c)
                \o StrLower(SubSeq(s, 2, Len(s)))

\* str.strip()
RECURSIVE StrStrip(_)
StrStrip(s) ==
    IF Len(s) = 0 THEN ""
    ELSE IF Char(s, 1) = " " THEN StrStrip(SubSeq(s, 2, Len(s)))
    ELSE IF Char(s, Len(s)) = " " THEN StrStrip(SubSeq(s, 1, Len(s) - 1))
    ELSE s

\* needle in hay
StrContains(hay, needle) ==
    \E i \in 1..(Len(hay) + 1) :
        /\ i + Len(needle) - 1 <= Len(hay)
        /\ SubSeq(hay, i, i + Len(needle) - 1) = needle

\* a < b, by code points
RECURSIVE StrLt(_, _)
StrLt(a, b) ==
    IF Len(b) = 0 THEN FALSE
    ELSE IF Len(a) = 0 THEN TRUE
    ELSE IF Ord(Char(a, 1)) < Ord(Char(b, 1)) THEN TRUE
    ELSE IF Ord(Char(a, 1)) > Ord(Char(b, 1)) THEN FALSE
    ELSE StrLt(SubSeq(a, 2, Len(a)), SubSeq(b, 2, Len(b)))

AllDigits(s) == Len(s) > 0 /\ \A i \in 1..Len(s) : IsDigit(Char(s, i))

\* the number a string of digits writes
RECURSIVE DigitsToInt(_)
DigitsToInt(s) ==
    IF Len(s) = 0 THEN 0
    ELSE 10 * DigitsToInt(SubSeq(s, 1, Len(s) - 1))
            + (IndexOf(Char(s, Len(s)), Digits) - 1)

\* str(n) of an int
RECURSIVE NatToStr(_)
NatToStr(n) ==
    IF n < 10 THEN Char(Digits, n + 1)
    ELSE NatToStr(n \div 10) \o Char(Digits, (n % 10) + 1)

IntToStr(n) == IF n < 0 THEN "-" \o NatToStr(0 - n) ELSE NatToStr(n)

\* s.split(sep)
RECURSIVE StrSplit(_, _)
StrSplit(s, sep) ==
    LET i == IndexOf(sep, s)
    IN IF i = 0 THEN <<s>>
       ELSE <<SubSeq(s, 1, i - 1)>> \o StrSplit(SubSeq(s, i + 1, Len(s)), sep)

---------------------------------------------------------------------------
(* filters.py: coercion *)

\* str(v); a list prints its items' repr
PyRepr(v) ==
    CASE v.t = "str" -> "'" \o v.s \o "'"
      [] v.t = "num" -> IntToStr(v.n)
      [] v.t = "bool" -> (IF v.b THEN "True" ELSE "False")
      [] OTHER -> "None"

RECURSIVE JoinRepr(_)
JoinRepr(xs) ==
    IF Len(xs) = 0 THEN ""
    ELSE IF Len(xs) = 1 THEN PyRepr(xs[1])
    ELSE PyRepr(xs[1]) \o ", " \o JoinRepr(Tail(xs))

PyStr(v) ==
    CASE v.t = "str" -> v.s
      [] v.t = "list" -> "[" \o JoinRepr(v.items) \o "]"
      [] OTHER -> PyRepr(v)

_is_nullish(value) == value.t = "none" \/ (value.t = "str" /\ value.s = "")

_to_bool(value) ==
    CASE value.t = "bool" -> value
      [] value.t = "num" -> B(value.n # 0)
      [] value.t = "str" ->
            LET s == StrLower(StrStrip(value.s))
            IN IF s \in {"true", "t", "yes", "y", "1"} THEN B(TRUE)
               ELSE IF s \in {"false", "f", "no", "n", "0"} THEN B(FALSE)
               ELSE PyNone
      [] OTHER -> PyNone

\* float(s) for the float syntax the model's strings use: digits with an
\* optional minus sign
ParseFloat(s) ==
    IF AllDigits(s) THEN N(DigitsToInt(s))
    ELSE IF Len(s) > 1 /\ Char(s, 1) = "-" /\ AllDigits(SubSeq(s, 2, Len(s)))
         THEN N(0 - DigitsToInt(SubSeq(s, 2, Len(s))))
    ELSE PyNone

_to_number(value) ==
    CASE value.t = "bool" -> N(IF value.b THEN 1 ELSE 0)
      [] value.t = "num" -> value
      [] value.t = "str" -> ParseFloat(StrStrip(value.s))
      [] OTHER -> PyNone

IsLeap(y) == (y % 4 = 0 /\ y % 100 # 0) \/ y % 400 = 0

DaysIn(y, m) ==
    IF m = 2 THEN (IF IsLeap(y) THEN 29 ELSE 28)
    ELSE IF m \in {4, 6, 9, 11} THEN 30 ELSE 31

\* the datetime of year, month and day given in digits, None when they name no date
MakeDate(ys, ms, ds) ==
    IF /\ Len(ys) = 4 /\ AllDigits(ys)
       /\ Len(ms) \in {1, 2} /\ AllDigits(ms)
       /\ Len(ds) \in {1, 2} /\ AllDigits(ds)
    THEN LET y == DigitsToInt(ys)
             m == DigitsToInt(ms)
             d == DigitsToInt(ds)
         IN IF y >= 1 /\ m \in 1..12 /\ d >= 1 /\ d <= DaysIn(y, m)
            THEN D(y * 10000 + m * 100 + d)
            ELSE PyNone
    ELSE PyNone

\* datetime.fromisoformat(s) on a date without a time: YYYY-MM-DD
FromIsoFormat(s) ==
    LET f == StrSplit(s, "-")
    IN IF Len(s) = 10 /\ Len(f) = 3 /\ Len(f[2]) = 2 /\ Len(f[3]) = 2
       THEN MakeDate(f[1], f[2], f[3])
       ELSE PyNone

\* datetime.strptime(s, fmt) for the four date formats of _DATE_FORMATS, by
\* number: 1 %Y-%m-%d, 2 %Y/%m/%d, 3 %m/%d/%Y, 4 %d/%m/%Y. The two formats with a
\* time need a ":" and match no string of the model.
StrPTime(s, fmt) ==
    LET f == StrSplit(s, IF fmt = 1 THEN "-" ELSE "/")
    IN IF Len(f) # 3 THEN PyNone
       ELSE CASE fmt \in {1, 2} -> MakeDate(f[1], f[2], f[3])
              [] fmt = 3 -> MakeDate(f[3], f[1], f[2])
              [] OTHER -> MakeDate(f[3], f[2], f[1])

RECURSIVE TryFormats(_, _)
TryFormats(s, fmt) ==
    IF fmt > 4 THEN PyNone
    ELSE IF StrPTime(s, fmt).t = "dt" THEN StrPTime(s, fmt)
    ELSE TryFormats(s, fmt + 1)

_to_datetime(value) ==
    CASE value.t \in {"num", "bool"} -> PyNone
      [] value.t = "str" ->
            LET s == StrStrip(value.s)
            IN IF FromIsoFormat(s).t = "dt" THEN FromIsoFormat(s)
               ELSE TryFormats(s, 1)
      [] OTHER -> PyNone

\* the choice _coerce_pair makes from the six conversions ldt .. rb
CoerceFrom(lhs, rhs, ldt, rdt, ln, rn, lb, rb, ls, rs) ==
    IF _is_nullish(lhs) /\ _is_nullish(rhs)
    THEN [a |-> PyNone, b |-> PyNone, kind |-> "null"]
    ELSE IF ldt.t = "dt" /\ rdt.t = "dt"
    THEN [a |-> ldt, b |-> rdt, kind |-> "datetime"]
    ELSE IF ln.t = "num" /\ rn.t = "num"
    THEN [a |-> ln, b |-> rn, kind |-> "number"]
    ELSE IF lb.t = "bool" /\ rb.t = "bool"
    THEN [a |-> lb, b |-> rb, kind |-> "bool"]
    ELSE [a |-> S(IF lhs.t = "none" THEN "" ELSE ls),
          b |-> S(IF rhs.t = "none" THEN "" ELSE rs),
          kind |-> "string"]

_coerce_pair(lhs, rhs) ==
    CoerceFrom(lhs, rhs, _to_datetime(lhs), _to_datetime(rhs),
               _to_number(lhs), _to_number(rhs), _to_bool(lhs), _to_bool(rhs),
               PyStr(lhs), PyStr(rhs))

---------------------------------------------------------------------------
(* filters.py: comparison *)

\* a < b on two coerced values of one kind that Python orders
PyLt(a, b, kind) ==
    CASE kind \in {"number", "datetime"} -> a.n < b.n
      [] kind = "string" -> StrLt(a.s, b.s)
      [] OTHER -> (~a.b) /\ b.b

\* a >= b as Python evaluates it: None >= None raises TypeError
PyGe(a, b, kind) ==
    IF kind = "null" THEN Raise("TypeError") ELSE Ret(~PyLt(a, b, kind))

\* _cmp on the coerced pair p
CmpPair(p, op) ==
    CASE op = "eq" -> p.a = p.b
      [] op = "ne" -> p.a # p.b
      [] op \in {"gt", "lt"} /\ p.kind \in {"number", "datetime", "string"} ->
           PyLt(IF op = "gt" THEN p.b ELSE p.a, IF op = "gt" THEN p.a ELSE p.b,
                p.kind)
      [] op \in {"gte", "lte"} /\ p.kind \in {"number", "datetime", "string"} ->
           ~PyLt(IF op = "gte" THEN p.a ELSE p.b, IF op = "gte" THEN p.b ELSE p.a,
                 p.kind)
      [] OTHER -> FALSE

_cmp(lhs, rhs, op) == CmpPair(_coerce_pair(lhs, rhs), op)

_like(cell, pattern) ==
    IF _is_nullish(cell) \/ _is_nullish(pattern) THEN FALSE
    ELSE StrContains(StrLower(PyStr(cell)), StrLower(PyStr(pattern)))

\* "lo and hi" of two comparisons that may raise: hi is evaluated when lo is True
PyAnd(lo, hi) ==
    IF lo.raised # "" THEN lo
    ELSE IF ~lo.val THEN Ret(FALSE)
    ELSE hi

\* _between on the two coerced pairs: a_l >= b_l and a_h <= b_h
BetweenPairs(p1, p2) ==
    IF p1.kind # p2.kind THEN Ret(FALSE)
    ELSE PyAnd(PyGe(p1.a, p1.b, p1.kind), PyGe(p2.b, p2.a, p2.kind))

_between(cell, low, high) ==
    BetweenPairs(_coerce_pair(cell, low), _coerce_pair(cell, high))

_in_list(cell, options) ==
    \E i \in 1..Len(options) : _cmp(cell, options[i], "eq")

_not_in_list(cell, options) ==
    \A i \in 1..Len(options) : ~_cmp(cell, options[i], "eq")

---------------------------------------------------------------------------
(* filters.py: the predicate compiler *)

\* An entry of an "and"/"or" list: a condition object (isdict) whose keys may be
\* Absent, or a JSON value that is no object.
Cond(field, operator, value, values) ==
    [isdict |-> TRUE, field |-> field, operator |-> operator,
     value |-> value, values |-> values]

NonDict ==
    [isdict |-> FALSE, field |-> Absent, operator |-> Absent,
     value |-> Absent, values |-> Absent]

\* row.get(field) on a row record: a function from header names to cells
RowGet(row, field) ==
    IF field.t = "str" /\ field.s \in DOMAIN row THEN row[field.s] ELSE PyNone

\* the pair of the "between" branch: the first two of values, else of value
BetweenPair(value, values) ==
    IF values.t = "list" /\ Len(values.items) >= 2
    THEN SubSeq(values.items, 1, 2)
    ELSE IF value.t = "list" /\ Len(value.items) >= 2
    THEN SubSeq(value.items, 1, 2)
    ELSE <<>>

\* opts of the "in"/"not_in" branch
Options(value, values) ==
    IF values.t = "list" THEN values.items
    ELSE IF value.t = "list" THEN value.items
    ELSE <<value>>

\* the branches of match_one on the cell, the lower-cased operator, value and values
MatchCell(cell, operator, value, values, pair, opts) ==
    CASE operator = "is_null" -> Ret(_is_nullish(cell))
      [] operator = "is_not_null" -> Ret(~_is_nullish(cell))
      [] operator = "like" -> Ret(_like(cell, value))
      [] operator = "between" ->
           IF pair = <<>> THEN Ret(FALSE)
           ELSE _between(cell, pair[1], pair[2])
      [] operator = "in" -> Ret(_in_list(cell, opts))
      [] operator = "not_in" -> Ret(_not_in_list(cell, opts))
      [] operator \in {"eq", "ne", "gt", "gte", "lt", "lte"} ->
           Ret(_cmp(cell, value, operator))
      [] OTHER -> Ret(FALSE)

match_one(row, cond) ==
    MatchCell(RowGet(row, Get(cond.field, PyNone)),
              StrLower(PyStr(Get(cond.operator, S("eq")))),
              Get(cond.value, PyNone), Get(cond.values, PyNone),
              BetweenPair(Get(cond.value, PyNone), Get(cond.values, PyNone)),
              Options(Get(cond.value, PyNone), Get(cond.values, PyNone)))

\* The value of the "and" or "or" key of a where object: t is "absent", "none",
\* "list", "dict" (a bare condition object) or "other" (any other JSON value that
\* is truthy); items are the list's entries, or the one bare value.
CondList(t, items) == [t |-> t, items |-> items]

NoList == CondList("absent", <<>>)

\* bool(v) of such a value: an empty list and an object without keys are falsy
Truthy(v) ==
    CASE v.t \in {"absent", "none"} -> FALSE
      [] v.t = "list" -> Len(v.items) > 0
      [] v.t = "dict" ->
            \E k \in {"field", "operator", "value", "values"} :
                v.items[1][k].t # "absent"
      [] OTHER -> TRUE

\* where.get(key) or [], wrapped into a list when it is none
CondsOf(v) ==
    IF ~Truthy(v) THEN <<>>
    ELSE v.items

\* the "and" loop from entry i on: False at the first entry that is no object or
\* does not match
RECURSIVE AndLoop(_, _, _)
\* the "and" loop after entry i gave m
AndNext(m, row, conds, i) ==
    IF m.raised # "" THEN m
    ELSE IF ~m.val THEN Ret(FALSE)
    ELSE AndLoop(row, conds, i + 1)

AndLoop(row, conds, i) ==
    IF i > Len(conds) THEN Ret(TRUE)
    ELSE IF ~conds[i].isdict THEN Ret(FALSE)
    ELSE AndNext(match_one(row, conds[i]), row, conds, i)

\* the "or" loop from entry i on: True at the first entry that is an object and
\* matches
RECURSIVE OrLoop(_, _, _)
\* the "or" loop after entry i gave m
OrNext(m, row, conds, i) ==
    IF m.raised # "" THEN m
    ELSE IF m.val THEN Ret(TRUE)
    ELSE OrLoop(row, conds, i + 1)

OrLoop(row, conds, i) ==
    IF i > Len(conds) THEN Ret(FALSE)
    ELSE OrNext(IF conds[i].isdict THEN match_one(row, conds[i]) ELSE Ret(FALSE),
                row, conds, i)

\* how predicate() combines and_ok and or_ok
\* Mutation of Combine: both lists must hold, as the docstring of
\* build_predicate has it
CombineBoth(and_conds, or_conds, and_ok, or_ok) ==
    IF Len(and_conds) > 0 /\ Len(or_conds) > 0 THEN and_ok /\ or_ok
    ELSE IF Len(and_conds) > 0 THEN and_ok
    ELSE IF Len(or_conds) > 0 THEN or_ok
    ELSE TRUE

Combine(and_conds, or_conds, and_ok, or_ok) ==
    IF Len(and_conds) > 0 /\ Len(or_conds) > 0 THEN and_ok \/ or_ok
    ELSE IF Len(and_conds) > 0 THEN and_ok
    ELSE IF Len(or_conds) > 0 THEN or_ok
    ELSE TRUE

\* predicate() once its two loops gave and_ok and or_ok
PredicateOf(and_conds, or_conds, and_ok, or_ok) ==
    IF and_ok.raised # "" THEN and_ok
    ELSE IF or_ok.raised # "" THEN or_ok
    ELSE Ret(Combine(and_conds, or_conds, and_ok.val, or_ok.val))

predicate(and_conds, or_conds, row) ==
    PredicateOf(and_conds, or_conds, AndLoop(row, and_conds, 1),
                OrLoop(row, or_conds, 1))

\* A JSON payload given to build_predicate: t is "none", "other" (no object),
\* "dict" (a where object with its "and" and "or" values) or "payload" (an
\* object with a "where" key, whose value is such a record).
WhereObj(a, o) == [t |-> "dict", and |-> a, or |-> o]
NoWhere == [t |-> "none", and |-> NoList, or |-> NoList]
OtherWhere == [t |-> "other", and |-> NoList, or |-> NoList]
Payload(w) == [t |-> "payload", where |-> w]

\* build_predicate(payload)(row)
\* the where object of a payload: its "where" key when it has one
WhereOf(payload) == IF payload.t = "payload" THEN payload.where ELSE payload

build_predicate(payload, row) ==
    IF WhereOf(payload).t # "dict" THEN Ret(TRUE)
    ELSE predicate(CondsOf(WhereOf(payload).and), CondsOf(WhereOf(payload).or), row)

---------------------------------------------------------------------------
(* utils.py *)

\* col_idx_to_a1(n): 0 -> A, 25 -> Z, 26 -> AA
RECURSIVE A1Loop(_, _)
A1Loop(n, s) ==
    IF n = 0 THEN s
    ELSE A1Loop((n - 1) \div 26, Char(UpperCase, ((n - 1) % 26) + 1) \o s)

col_idx_to_a1(n) == A1Loop(n + 1, "")

\* the names of a header row (its cells are strings)
Names(headers) == {headers[i].s : i \in 1..Len(headers)}

\* list.index(k): the first position of name k
RECURSIVE HeaderIndexFrom(_, _, _)
HeaderIndexFrom(headers, k, i) ==
    IF i > Len(headers) THEN 0
    ELSE IF headers[i].s = k THEN i
    ELSE HeaderIndexFrom(headers, k, i + 1)

HeaderIndex(headers, k) == HeaderIndexFrom(headers, k, 1)

\* one raw row padded with "" or cut to the header length
Padded(headers, r) ==
    [i \in 1..Len(headers) |-> IF i <= Len(r) THEN r[i] ELSE S("")]

\* dict(zip(headers, padded)): of two cells under one name the later one stays
RowDict(headers, padded) ==
    [h \in Names(headers) |->
        padded[CHOOSE i \in 1..Len(headers) :
                  /\ headers[i].s = h
                  /\ \A j \in 1..Len(headers) : headers[j].s = h => j <= i]]

normalize_rows(headers, raw_rows) ==
    [i \in 1..Len(raw_rows) |-> RowDict(headers, Padded(headers, raw_rows[i]))]

---------------------------------------------------------------------------
(* services.py: pagination *)

\* int(v) of a JSON value: [raised, val]
PyInt(v) ==
    CASE v.t = "num" -> Ret(v.n)
      [] v.t = "bool" -> Ret(IF v.b THEN 1 ELSE 0)
      [] v.t = "str" ->
            IF ParseFloat(StrStrip(v.s)).t = "num"
            THEN Ret(ParseFloat(StrStrip(v.s)).n)
            ELSE Raise("ValueError")
      [] OTHER -> Raise("TypeError")

DefaultLimit == 50

\* int(x) if x is not None else default, and default when int raises
IntOr(v, default) ==
    IF v.t \in {"none", "absent"} THEN default
    ELSE IF PyInt(v).raised # "" THEN default
    ELSE PyInt(v).val

\* rows[start:end] for 0 <= start <= end
Slice(rows, start, end) ==
    IF start >= Len(rows) THEN <<>>
    ELSE SubSeq(rows, start + 1, IF end < Len(rows) THEN end ELSE Len(rows))

\* Mutation of Paginated: a next page is announced when the slice ends at total
PaginatedInclusive(rows, page, limit) ==
    [rows |-> Slice(rows,
                    IF limit > 0 THEN (page - 1) * limit ELSE 0,
                    IF limit > 0 THEN (page - 1) * limit + limit ELSE Len(rows)),
     total |-> Len(rows),
     page |-> page,
     limit |-> limit,
     hasNextPage |-> (IF limit > 0 THEN (page - 1) * limit + limit
                      ELSE Len(rows)) <= Len(rows)]

\* paginated and the info dict from the clamped page and limit
Paginated(rows, page, limit) ==
    [rows |-> Slice(rows,
                    IF limit > 0 THEN (page - 1) * limit ELSE 0,
                    IF limit > 0 THEN (page - 1) * limit + limit ELSE Len(rows)),
     total |-> Len(rows),
     page |-> page,
     limit |-> limit,
     hasNextPage |-> (IF limit > 0 THEN (page - 1) * limit + limit
                      ELSE Len(rows)) < Len(rows)]

apply_pagination(rows, page_in, limit_in) ==
    Paginated(rows,
              IF IntOr(page_in, 1) < 1 THEN 1 ELSE IntOr(page_in, 1),
              IF IntOr(limit_in, DefaultLimit) < 0 THEN 0
              ELSE IntOr(limit_in, DefaultLimit))

---------------------------------------------------------------------------
(* services.py: the upsert engine *)

\* A store call: op is "get", "update", "batchUpdate" or "append"; data are the
\* (range, row) pairs written, one for update and append.
StoreCall(op, range, data) == [op |-> op, range |-> range, data |-> data]

RangeRow(range, row) == [range |-> range, row |-> row]

\* f"{sheet_name}!A{n}:{end_col}{n}"
RangeSpec(sheet_name, headers, n) ==
    sheet_name \o "!A" \o IntToStr(n) \o ":"
        \o col_idx_to_a1(Len(headers) - 1) \o IntToStr(n)

\* A patch is the JSON object "data": its items, [k, v] with distinct keys, in
\* order.
KV(k, v) == [k |-> k, v |-> v]

HasKey(data, k) == \E j \in 1..Len(data) : data[j].k = k

ValueOf(data, k) == data[CHOOSE j \in 1..Len(data) : data[j].k = k].v

\* whether column i is overwritten: the first column named by a key whose
\* value prints differently from the existing cell
Overwrites(headers, existing, data, i) ==
    /\ HasKey(data, headers[i].s)
    /\ HeaderIndex(headers, headers[i].s) = i
    /\ PyStr(existing[i]) # PyStr(ValueOf(data, headers[i].s))

\* [existing_dict.get(h, "") for h in headers]
ExistingRow(headers, existing_dict) ==
    [i \in 1..Len(headers) |-> existing_dict[headers[i].s]]

\* Mutation of PatchedRow: the row starts from empty cells, as new_row does
PatchedRowBlank(headers, existing_dict, data) ==
    [i \in 1..Len(headers) |->
        IF HasKey(data, headers[i].s) THEN ValueOf(data, headers[i].s) ELSE S("")]

\* updated_row after the loop over data.items()
PatchedRow(headers, existing_dict, data) ==
    LET existing == ExistingRow(headers, existing_dict)
    IN [i \in 1..Len(headers) |->
           IF Overwrites(headers, existing, data, i)
           THEN ValueOf(data, headers[i].s) ELSE existing[i]]

\* Mutation of needs_update: a row is written whenever a patch key is a header
AlwaysNeedsUpdate(headers, existing_dict, data) ==
    \E i \in 1..Len(headers) : HasKey(data, headers[i].s)

needs_update(headers, existing_dict, data) ==
    \E i \in 1..Len(headers) :
        Overwrites(headers, ExistingRow(headers, existing_dict), data, i)

\* Mutation of NewRow: the patch values in the order of the patch keys
NewRowByKeyOrder(headers, data) ==
    [i \in 1..Len(headers) |-> IF i <= Len(data) THEN data[i].v ELSE S("")]

\* new_row of the append branch
NewRow(headers, data) ==
    [i \in 1..Len(headers) |->
        IF HasKey(data, headers[i].s) /\ HeaderIndex(headers, headers[i].s) = i
        THEN ValueOf(data, headers[i].s) ELSE S("")]

\* the increasing sequence of the numbers in set s
RECURSIVE SortedSeq(_)
SortedSeq(s) ==
    IF s = {} THEN <<>>
    ELSE LET m == CHOOSE x \in s : \A y \in s : x <= y
         IN <<m>> \o SortedSeq(s \ {m})

\* the predicate upsert_rows selects with: a where of None matches every row
UpsertMatch(where, row) ==
    IF where.t = "none" THEN Ret(TRUE) ELSE build_predicate(where, row)

\* Mutation of TargetIndices: without update_all the last match is the target
TargetIndicesLast(selected_indices, update_all) ==
    IF update_all THEN selected_indices
    ELSE <<selected_indices[Len(selected_indices)]>>

\* target_indices: every match, or the first one
TargetIndices(selected_indices, update_all) ==
    IF update_all THEN selected_indices ELSE <<selected_indices[1]>>

\* the branch of one target: a single update call when the row changes
SingleBranch(sheet_name, headers, rows, data, idx) ==
    IF needs_update(headers, rows[idx + 1], data)
    THEN [writes |->
             <<StoreCall("update", RangeSpec(sheet_name, headers, idx + 2),
                 <<RangeRow(RangeSpec(sheet_name, headers, idx + 2),
                            PatchedRow(headers, rows[idx + 1], data))>>)>>,
          updated |-> 1]
    ELSE [writes |-> <<>>, updated |-> 0]

\* Mutation of BatchData: every target is written, changed or not
BatchDataAll(sheet_name, headers, rows, data, target_indices, i) ==
    [j \in 1..(Len(target_indices) - i + 1) |->
        RangeRow(RangeSpec(sheet_name, headers, target_indices[i + j - 1] + 2),
                 PatchedRow(headers, rows[target_indices[i + j - 1] + 1], data))]

\* ranges and data_rows of the branch of several targets, zipped
RECURSIVE BatchData(_, _, _, _, _, _)
BatchData(sheet_name, headers, rows, data, target_indices, i) ==
    IF i > Len(target_indices) THEN <<>>
    ELSE LET idx == target_indices[i]
             rest == BatchData(sheet_name, headers, rows, data,
                               target_indices, i + 1)
         IN IF needs_update(headers, rows[idx + 1], data)
            THEN <<RangeRow(RangeSpec(sheet_name, headers, idx + 2),
                            PatchedRow(headers, rows[idx + 1], data))>> \o rest
            ELSE rest

\* the branch of several targets: one batchUpdate call when any row is in d
BatchCall(d) ==
    IF Len(d) > 0
    THEN [writes |-> <<StoreCall("batchUpdate", "", d)>>, updated |-> Len(d)]
    ELSE [writes |-> <<>>, updated |-> 0]

BatchBranch(sheet_name, headers, rows, data, target_indices) ==
    BatchCall(BatchData(sheet_name, headers, rows, data, target_indices, 1))

\* the branch of "if selected_indices": one target or several
UpdateBranch(sheet_name, headers, rows, data, target_indices) ==
    IF Len(target_indices) = 1
    THEN SingleBranch(sheet_name, headers, rows, data, target_indices[1])
    ELSE BatchBranch(sheet_name, headers, rows, data, target_indices)

\* the branch of no match: one append call of new_row
AppendBranch(sheet_name, headers, values, data) ==
    [writes |->
        <<StoreCall("append", RangeSpec(sheet_name, headers, Len(values)),
            <<RangeRow(RangeSpec(sheet_name, headers, Len(values)),
                       NewRow(headers, data))>>)>>,
     updated |-> 0]

NoWrites == [writes |-> <<>>, updated |-> 0]

\* What a run of upsert_rows did: the exception it raised ("" for none), what
\* its read rd returned and left in the cache, its store calls in order, the
\* counters of its result, and selected_indices and target_indices (0-based).
Outcome(rd, raised, br, appended, selected, targets) ==
    [raised |-> raised, values |-> rd.values, remote |-> rd.remote,
     cache |-> rd.cache, calls |-> rd.calls \o br.writes, writes |-> br.writes,
     updated |-> br.updated, appended |-> appended, selected |-> selected,
     targets |-> targets]

\* upsert_rows from "if selected_indices" on
UpsertSelected(rd, sheet_name, headers, rows, data, update_all, selected_indices) ==
    IF Len(selected_indices) > 0
    THEN Outcome(rd, "",
                 UpdateBranch(sheet_name, headers, rows, data,
                              TargetIndices(selected_indices, update_all)),
                 0, selected_indices, TargetIndices(selected_indices, update_all))
    ELSE Outcome(rd, "", AppendBranch(sheet_name, headers, rd.values, data),
                 1, <<>>, <<>>)

\* selected_indices from m, the predicate's outcome on each row
SelectedIndices(m) == SortedSeq({j - 1 : j \in {i \in DOMAIN m : m[i].val}})

\* upsert_rows once the predicate ran on each row: an exception of the
\* predicate leaves upsert_rows before any write
UpsertMatched(rd, sheet_name, headers, rows, data, update_all, m) ==
    IF \E i \in DOMAIN m : m[i].raised # ""
    THEN Outcome(rd, "TypeError", NoWrites, 0, <<>>, <<>>)
    ELSE UpsertSelected(rd, sheet_name, headers, rows, data, update_all,
                        SelectedIndices(m))

\* upsert_rows on the normalized rows
UpsertRows(rd, sheet_name, headers, rows, where, data, update_all) ==
    UpsertMatched(rd, sheet_name, headers, rows, data, update_all,
                  [i \in 1..Len(rows) |-> UpsertMatch(where, rows[i])])

\* upsert_rows after its read returned rd
UpsertRead(rd, sheet_name, where, data, update_all) ==
    IF rd.raised # ""
    THEN Outcome(rd, rd.raised, NoWrites, 0, <<>>, <<>>)
    ELSE IF Len(rd.values) = 0
    THEN Outcome(rd, "Sheet appears empty or unreadable", NoWrites, 0, <<>>, <<>>)
    ELSE UpsertRows(rd, sheet_name, rd.values[1],
                    normalize_rows(rd.values[1], Tail(rd.values)), where, data,
                    update_all)

\* a write call that raises ends upsert_rows with that exception
WriteRaises(u, fail) ==
    IF u.raised = "" /\ fail /\ Len(u.writes) > 0
    THEN [u EXCEPT !.raised = "HttpError", !.updated = 0, !.appended = 0]
    ELSE u

---------------------------------------------------------------------------
(* The remote store (the Sheets API), as the calls of services.py use it *)

\* the row number n of a range "Sheet!A<n>:<col><n>"
RangeRowNum(range) ==
    LET cell == StrSplit(StrSplit(range, "!")[2], ":")[1]
    IN DigitsToInt(SubSeq(cell, 2, Len(cell)))

\* values().update and values().batchUpdate write each row at its range;
\* values().append adds the row after the last row of the table
RECURSIVE StoreWrite(_, _, _, _)
StoreWrite(table, op, data, i) ==
    IF i > Len(data) THEN table
    ELSE IF op = "append" THEN Append(table, data[i].row)
    ELSE StoreWrite([table EXCEPT ![RangeRowNum(data[i].range)] = data[i].row],
                    op, data, i + 1)

RECURSIVE StoreApply(_, _, _)
StoreApply(table, writes, i) ==
    IF i > Len(writes) THEN table
    ELSE StoreApply(StoreWrite(table, writes[i].op, writes[i].data, 1),
                    writes, i + 1)

---------------------------------------------------------------------------
(* services.py: read_values and its cache *)

_READ_CACHE_TTL_SECONDS == 10

NoEntry == [has |-> FALSE, ts |-> 0, values |-> <<>>]
Entry(ts, values) == [has |-> TRUE, ts |-> ts, values |-> values]

\* read_values(spreadsheet_id, a1_range, use_cache) at time t: what it returns,
\* the store call it makes and the cache entry it leaves. fail: the store raises.
read_values(table, entry, t, a1_range, use_cache, fail) ==
    IF use_cache /\ entry.has /\ (t - entry.ts) <= _READ_CACHE_TTL_SECONDS
    THEN [raised |-> "", values |-> entry.values, calls |-> <<>>,
          cache |-> entry, remote |-> FALSE]
    ELSE IF fail
    THEN [raised |-> "HttpError", values |-> <<>>,
          calls |-> <<StoreCall("get", a1_range, <<>>)>>, cache |-> entry,
          remote |-> TRUE]
    ELSE [raised |-> "", values |-> table,
          calls |-> <<StoreCall("get", a1_range, <<>>)>>,
          cache |-> IF use_cache THEN Entry(t, table) ELSE entry,
          remote |-> TRUE]

\* Mutation of UpsertUseCache: the default of read_values
UseCacheDefault == TRUE

\* the use_cache argument of the read in upsert_rows
UpsertUseCache == FALSE

\* upsert_rows against the store table, the cache entry and the clock t. fail
\* is "none", "get" (the read raises) or "write" (the write call raises).
upsert_rows(table, entry, t, sheet_name, where, data, update_all, fail) ==
    WriteRaises(UpsertRead(read_values(table, entry, t, sheet_name,
                                       UpsertUseCache, fail = "get"),
                           sheet_name, where, data, update_all),
                fail = "write")

\* what upsert_rows returns: the dict of its return statement
UpsertResult(u) == [updated |-> u.updated, appended |-> u.appended]

---------------------------------------------------------------------------
(* validators.py and views.py *)

\* "not v" of a query parameter or body value
Falsy(v) ==
    \/ v.t \in {"absent", "none"}
    \/ (v.t = "str" /\ v.s = "")
    \/ (v.t = "num" /\ v.n = 0)
    \/ (v.t = "bool" /\ ~v.b)
    \/ (v.t = "list" /\ Len(v.items) = 0)

require_sheet(sheet_param) ==
    IF Falsy(sheet_param) THEN Raise("Missing 'sheet' name.") ELSE Ret(sheet_param.s)

\* The "data" of a body: t is "absent", "other" (no object) or "dict", kv the
\* object's items.
DataObj(kv) == [t |-> "dict", kv |-> kv]
NoData == [t |-> "absent", kv |-> <<>>]
OtherData == [t |-> "other", kv |-> <<>>]

require_data(data) ==
    IF data.t # "dict" \/ Len(data.kv) = 0
    THEN Raise("'data' must be a non-empty object") ELSE Ret(data.kv)

\* update_all of update_sheet, from the "multiple" query parameter
UpdateAll(multiple) ==
    StrLower(StrStrip(PyStr(Get(multiple, S("false")))))
        \in {"1", "true", "t", "yes", "y"}

NoUpsert ==
    [ran |-> FALSE, raised |-> "", values |-> <<>>, updated |-> 0,
     appended |-> 0, selected |-> <<>>, targets |-> <<>>, remote |-> FALSE]

NoResp ==
    [kind |-> "none", status |-> 0, error |-> "", headers |-> <<>>, rows |-> <<>>,
     total |-> 0, hasNextPage |-> FALSE, limit |-> 0, updated |-> 0, appended |-> 0]

ErrorResp(e, status) == [NoResp EXCEPT !.kind = "error", !.status = status, !.error = e]

\* The JsonResponse of update_sheet from the dict upsert_rows returned: reading
\* a key the dict does not hold raises KeyError, which the handler turns into
\* an error response.
UpdateResponse(result) ==
    IF {"headers", "updated", "appended"} \subseteq DOMAIN result
    THEN [NoResp EXCEPT !.kind = "ok", !.status = 200,
                        !.headers = result["headers"],
                        !.updated = result["updated"],
                        !.appended = result["appended"]]
    ELSE ErrorResp("KeyError", 400)

\* what update_sheet leaves when it stops before upsert_rows
Rejected(table, entry, e) ==
    [table |-> table, cache |-> entry, calls |-> <<>>, ups |-> NoUpsert,
     resp |-> ErrorResp(e, 400)]

\* what update_sheet leaves after the run u of upsert_rows
Upserted(table, u) ==
    [table |-> IF u.raised = "" THEN StoreApply(table, u.writes, 1) ELSE table,
     cache |-> u.cache,
     calls |-> u.calls,
     ups |-> [ran |-> TRUE, raised |-> u.raised, values |-> u.values,
              updated |-> u.updated, appended |-> u.appended,
              selected |-> u.selected, targets |-> u.targets,
              remote |-> u.remote],
     resp |-> IF u.raised # "" THEN ErrorResp(u.raised, 400)
              ELSE UpdateResponse(UpsertResult(u))]

\* update_sheet: the state it leaves
update_sheet(table, entry, t, sheet_param, where, data, multiple, fail) ==
    IF require_sheet(sheet_param).raised # ""
    THEN Rejected(table, entry, require_sheet(sheet_param).raised)
    ELSE IF require_data(data).raised # ""
    THEN Rejected(table, entry, require_data(data).raised)
    ELSE Upserted(table,
                  upsert_rows(table, entry, t, require_sheet(sheet_param).val,
                              where, require_data(data).val, UpdateAll(multiple),
                              fail))

\* [r for r in rows if predicate(r)] from row i on: [raised, val]
RECURSIVE SelectRows(_, _, _)
SelectNext(m, rest, row) ==
    IF m.raised # "" THEN Raise(m.raised)
    ELSE IF rest.raised # "" THEN rest
    ELSE Ret((IF m.val THEN <<row>> ELSE <<>>) \o rest.val)

SelectRows(where, rows, i) ==
    IF i > Len(rows) THEN Ret(<<>>)
    ELSE SelectNext(build_predicate(where, rows[i]),
                    SelectRows(where, rows, i + 1), rows[i])

\* selected of read_sheet
Selected(where, rows) ==
    IF where.t = "none" THEN Ret(rows) ELSE SelectRows(where, rows, 1)

\* the page of read_sheet from the clamped page and limit
PageOf(selected, page, limit) ==
    [rows |-> Slice(selected,
                    IF limit > 0 THEN (page - 1) * limit ELSE 0,
                    IF limit > 0 THEN (page - 1) * limit + limit ELSE Len(selected)),
     total |-> Len(selected),
     limit |-> limit,
     hasNextPage |-> (IF limit > 0 THEN (page - 1) * limit + limit
                      ELSE Len(selected)) < Len(selected)]

\* the pagination of read_sheet (views.py, written apart from apply_pagination)
ReadPage(selected, page_in, limit_in) ==
    PageOf(selected,
           IF IntOr(page_in, 1) < 1 THEN 1 ELSE IntOr(page_in, 1),
           IF IntOr(limit_in, 50) < 0 THEN 0 ELSE IntOr(limit_in, 50))

\* the JsonResponse of read_sheet
ReadResponse(headers, pg) ==
    [NoResp EXCEPT !.kind = "ok", !.status = 200, !.headers = headers,
                   !.rows = pg.rows, !.total = pg.total, !.limit = pg.limit,
                   !.hasNextPage = pg.hasNextPage]

\* what read_sheet leaves after its read rd
ReadOutcome(rd, resp_) == [cache |-> rd.cache, calls |-> rd.calls, resp |-> resp_]

\* read_sheet from the selection on
ReadSelected(rd, selected, page_in, limit_in) ==
    IF selected.raised # ""
    THEN ReadOutcome(rd, ErrorResp(selected.raised, 404))
    ELSE ReadOutcome(rd, ReadResponse(rd.values[1],
                                      ReadPage(selected.val, page_in, limit_in)))

\* read_sheet after its read returned rd
ReadRows(rd, where, page_in, limit_in) ==
    IF rd.raised # "" THEN ReadOutcome(rd, ErrorResp(rd.raised, 404))
    ELSE IF Len(rd.values) = 0 THEN ReadOutcome(rd, ErrorResp("IndexError", 404))
    ELSE ReadSelected(rd,
                      Selected(where, normalize_rows(rd.values[1], Tail(rd.values))),
                      page_in, limit_in)

\* read_sheet: the state it leaves; every failure is answered with status 404
read_sheet(table, entry, t, sheet_param, where, page_in, limit_in, fail) ==
    IF require_sheet(sheet_param).raised # ""
    THEN [cache |-> entry, calls |-> <<>>,
          resp |-> ErrorResp(require_sheet(sheet_param).raised, 404)]
    ELSE ReadRows(read_values(table, entry, t, require_sheet(sheet_param).val,
                              TRUE, fail),
                  where, page_in, limit_in)

---------------------------------------------------------------------------
(* The requests the model serves *)

MaxRows == 3        \* data rows a table holds at most
MaxTotal == 5       \* data rows of the tables that are paged
MaxPage == 3        \* largest page and limit asked for
MaxTime == 18       \* the clock stops here
TickStep == 6       \* seconds between two requests
MaxThreads == 2      \* request threads that run concurrently
MaxCalls == 2        \* calls of get_sheets_service per thread

SheetName == S("Sheet1")

Eq(field, value) == Cond(S(field), S("eq"), value, Absent)

AndOnly(conds) == WhereObj(CondList("list", conds), NoList)
OrOnly(conds) == WhereObj(NoList, CondList("list", conds))

\* a condition that raises on a row whose st cell is empty
BetweenEmpty == Cond(S("st"), S("between"), Absent, L(<<S(""), PyNone>>))

Request(handler, sheet_param, where, data, multiple, page, limit, fail) ==
    [handler |-> handler, sheet |-> sheet_param, where |-> where, data |-> data,
     multiple |-> multiple, page |-> page, limit |-> limit, fail |-> fail]

UpdateReq(where, data, multiple, fail) ==
    Request("update", SheetName, where, data, multiple, Absent, Absent, fail)

ReadReq(where, page, limit, fail) ==
    Request("read", SheetName, where, NoData, Absent, page, limit, fail)

NoReq == Request("none", Absent, NoWhere, NoData, Absent, Absent, Absent, "none")

\* the request with the store, the cache entry and the time it was served at
Stamped(r) ==
    [r |-> r, table0 |-> sheet, cache0 |-> cache, now0 |-> now]

\* no request is being served
Idle == [r |-> NoReq, table0 |-> <<>>, cache0 |-> NoEntry, now0 |-> 0]

\* a direct call of a function: its arguments, and its result once it is made
Call(fn, args) == [fn |-> fn, args |-> args, done |-> FALSE, out |-> Ret(FALSE)]

NoCall == [fn |-> "none", args |-> <<>>, done |-> TRUE, out |-> Ret(FALSE)]

\* PUT /update, served from arrival to the response
UpdateSheetWith(reqs) ==
    /\ req = Idle
    /\ \E r \in reqs :
         \E o \in {update_sheet(sheet, cache, now, r.sheet, r.where, r.data,
                                r.multiple, r.fail)} :
            /\ Len(o.table) <= MaxRows + 1
            /\ sheet' = o.table
            /\ cache' = o.cache
            /\ calls' = o.calls
            /\ ups' = o.ups
            /\ resp' = o.resp
            /\ req' = Stamped(r)
            /\ UNCHANGED <<now, fcall>>
            /\ UNCHANGED svars

\* POST /read, served from arrival to the response
ReadSheetWith(reqs) ==
    /\ req = Idle
    /\ \E r \in reqs :
         \E o \in {read_sheet(sheet, cache, now, r.sheet, r.where, r.page,
                              r.limit, r.fail = "get")} :
            /\ cache' = o.cache
            /\ calls' = o.calls
            /\ resp' = o.resp
            /\ ups' = NoUpsert
            /\ req' = Stamped(r)
            /\ UNCHANGED <<sheet, now, fcall>>
            /\ UNCHANGED svars

\* the response is sent and what the handler held is dropped
Respond ==
    /\ req # Idle
    /\ req' = Idle
    /\ calls' = <<>>
    /\ ups' = NoUpsert
    /\ resp' = NoResp
    /\ UNCHANGED <<sheet, cache, now, fcall>>
    /\ UNCHANGED svars

\* time passes between requests
Tick ==
    /\ req = Idle
    /\ now + TickStep <= MaxTime
    /\ now' = now + TickStep
    /\ UNCHANGED <<sheet, cache, req, calls, ups, resp, fcall>>
    /\ UNCHANGED svars

---------------------------------------------------------------------------
(* services.py: the lazily created credentials and store client.  Request   *)
(* threads run get_sheets_service concurrently; a thread may be switched    *)
(* out between any two of its reads and writes of the module globals.       *)

\* None, as the value of a module global; objects are numbered from 1
None == 0

Threads == 1..MaxThreads

\* a thread outside get_sheets_service: calls counts its calls so far, ret
\* holds what they returned, raised counts those that raised RuntimeError
IdleThread ==
    [pc |-> "idle", creds |-> None, svc |-> None, calls |-> 0, ret |-> <<>>,
     raised |-> 0]

\* the globals as the module defines them, no thread inside the function,
\* and GOOGLE_SERVICE_ACCOUNT_INFO_B64 set
NoService ==
    /\ settings = [GOOGLE_SERVICE_ACCOUNT_INFO_B64 |-> "e30="]
    /\ _CACHED_CREDS = None
    /\ _CACHED_SERVICE = None
    /\ built = 0
    /\ threads = [t \in Threads |-> IdleThread]

\* a request thread calls get_sheets_service (from read_values, upsert_rows)
CallService(t) ==
    /\ threads[t].pc = "idle"
    /\ threads[t].calls < MaxCalls
    /\ threads' = [threads EXCEPT ![t].pc = "check"]
    /\ UNCHANGED <<settings, _CACHED_CREDS, _CACHED_SERVICE, built>>
    /\ UNCHANGED hvars

\* "if _CACHED_SERVICE is not None"
ServiceCheck(t) ==
    /\ threads[t].pc = "check"
    /\ threads' = [threads EXCEPT
                      ![t].pc = IF _CACHED_SERVICE # None THEN "return"
                                ELSE "creds_check"]
    /\ UNCHANGED <<settings, _CACHED_CREDS, _CACHED_SERVICE, built>>
    /\ UNCHANGED hvars

\* _load_credentials: "if _CACHED_CREDS is not None", then the test of the
\* setting, which raises RuntimeError out of get_sheets_service when empty
CredsCheck(t) ==
    /\ threads[t].pc = "creds_check"
    /\ threads' =
          IF _CACHED_CREDS # None
          THEN [threads EXCEPT ![t].pc = "creds_return"]
          ELSE IF settings.GOOGLE_SERVICE_ACCOUNT_INFO_B64 # ""
          THEN [threads EXCEPT ![t].pc = "creds_new"]
          ELSE [threads EXCEPT ![t].pc = "idle", ![t].calls = @ + 1,
                               ![t].raised = @ + 1]
    /\ UNCHANGED <<settings, _CACHED_CREDS, _CACHED_SERVICE, built>>
    /\ UNCHANGED hvars

\* _load_credentials: the credentials are decoded and constructed, then
\* assigned to the global; the object a thread constructs is numbered by it
CredsStore(t) ==
    /\ threads[t].pc = "creds_new"
    /\ _CACHED_CREDS' = t
    /\ threads' = [threads EXCEPT ![t].pc = "creds_return"]
    /\ UNCHANGED <<settings, _CACHED_SERVICE, built>>
    /\ UNCHANGED hvars

\* _load_credentials: "return _CACHED_CREDS", of either branch, reads the
\* global; the caller holds the result as creds
CredsReturn(t) ==
    /\ threads[t].pc = "creds_return"
    /\ threads' = [threads EXCEPT ![t].pc = "build", ![t].creds = _CACHED_CREDS]
    /\ UNCHANGED <<settings, _CACHED_CREDS, _CACHED_SERVICE, built>>
    /\ UNCHANGED hvars

_load_credentials(t) == CredsCheck(t) \/ CredsStore(t) \/ CredsReturn(t)

\* build("sheets", "v4", credentials=creds, ...): a new client is constructed
ServiceBuild(t) ==
    /\ threads[t].pc = "build"
    /\ built' = built + 1
    /\ threads' = [threads EXCEPT ![t].pc = "store", ![t].svc = built + 1]
    /\ UNCHANGED <<settings, _CACHED_CREDS, _CACHED_SERVICE>>
    /\ UNCHANGED hvars

\* "_CACHED_SERVICE = ..." with the client the thread constructed
ServiceStore(t) ==
    /\ threads[t].pc = "store"
    /\ _CACHED_SERVICE' = threads[t].svc
    /\ threads' = [threads EXCEPT ![t].pc = "return"]
    /\ UNCHANGED <<settings, _CACHED_CREDS, built>>
    /\ UNCHANGED hvars

\* "return _CACHED_SERVICE", of either branch, reads the global
ServiceReturn(t) ==
    /\ threads[t].pc = "return"
    /\ threads' = [threads EXCEPT ![t].pc = "idle", ![t].calls = @ + 1,
                                  ![t].ret = Append(@, _CACHED_SERVICE)]
    /\ UNCHANGED <<settings, _CACHED_CREDS, _CACHED_SERVICE, built>>
    /\ UNCHANGED hvars

get_sheets_service(t) ==
    \/ ServiceCheck(t)
    \/ _load_credentials(t)
    \/ ServiceBuild(t)
    \/ ServiceStore(t)
    \/ ServiceReturn(t)

---------------------------------------------------------------------------
(* Spec: update requests against tables of up to MaxRows rows *)

Headers2 == <<S("id"), S("st")>>

\* raw rows as the store returns them: full, short and long ones, text and numbers
RawRowU ==
    {<<S("a"), S("x")>>, <<S("a"), N(5)>>, <<S("b"), S("x")>>, <<S("a")>>,
     <<S("a"), S("x"), S("x")>>}

RECURSIVE SeqsUpTo(_, _)
SeqsUpTo(set, n) ==
    IF n = 0 THEN {<<>>}
    ELSE LET shorter == SeqsUpTo(set, n - 1)
         IN shorter \cup {Append(q, x) : q \in shorter, x \in set}

InitTables == {<<>>} \cup {<<Headers2>> \o rows : rows \in SeqsUpTo(RawRowU, MaxRows)}

UpsertWhereU ==
    {NoWhere, AndOnly(<<Eq("id", S("a"))>>), AndOnly(<<Eq("id", S("zz"))>>),
     OrOnly(<<Eq("st", S("x"))>>)}

PatchU ==
    {DataObj(<<KV("st", S("5"))>>),
     DataObj(<<KV("zz", S("q")), KV("st", S("5"))>>),
     DataObj(<<KV("zz", S("q"))>>),
     DataObj(<<KV("id", S("b"))>>)}

MultipleU == {Absent, S(" True")}

UpdateReqU ==
    {UpdateReq(w, d, m, "none") : w \in UpsertWhereU, d \in PatchU, m \in MultipleU}
    \cup {UpdateReq(NoWhere, DataObj(<<KV("st", S("5"))>>), S("yes"), f) :
            f \in {"get", "write"}}
    \cup {UpdateReq(AndOnly(<<BetweenEmpty>>), DataObj(<<KV("st", S("5"))>>),
                    S("0"), "none"),
          UpdateReq(NoWhere, DataObj(<<>>), Absent, "none"),
          UpdateReq(NoWhere, OtherData, Absent, "none"),
          UpdateReq(NoWhere, NoData, Absent, "none"),
          Request("update", Absent, NoWhere, DataObj(<<KV("st", S("5"))>>),
                  Absent, Absent, Absent, "none")}

\* an update request is served on each table of InitTables
UpdateSheet == sheet \in InitTables /\ UpdateSheetWith(UpdateReqU)

Init ==
    /\ sheet \in InitTables
    /\ cache = NoEntry
    /\ now = 0
    /\ req = Idle
    /\ calls = <<>>
    /\ ups = NoUpsert
    /\ resp = NoResp
    /\ fcall = NoCall
    /\ NoService

Next == UpdateSheet \/ Respond

Spec == Init /\ [][Next]_vars

---------------------------------------------------------------------------
(* SpecCache: reads and updates of one table, with the read cache and a clock *)

CacheUpdateReqU ==
    {UpdateReq(NoWhere, DataObj(<<KV("st", v)>>), Absent, f) :
        v \in {S("5"), S("x")}, f \in {"none", "get"}}

CacheReadReqU ==
    {ReadReq(w, Absent, Absent, f) :
        w \in {NoWhere, AndOnly(<<Eq("st", S("x"))>>)}, f \in {"none", "get"}}

UpdateSheetC == UpdateSheetWith(CacheUpdateReqU)

ReadSheetC == ReadSheetWith(CacheReadReqU)

InitCache ==
    /\ sheet \in {<<Headers2, <<S("a"), S("x")>>>>,
                  <<Headers2, <<S("a"), N(5)>>, <<S("b"), S("x")>>>>}
    /\ cache = NoEntry
    /\ now = 0
    /\ req = Idle
    /\ calls = <<>>
    /\ ups = NoUpsert
    /\ resp = NoResp
    /\ fcall = NoCall
    /\ NoService

NextCache == UpdateSheetC \/ ReadSheetC \/ Respond \/ Tick

SpecCache == InitCache /\ [][NextCache]_vars

---------------------------------------------------------------------------
(* SpecPage: apply_pagination and the read endpoint on the same inputs *)

PageTable(n) ==
    <<Headers2>> \o [i \in 1..n |-> <<S(IntToStr(i)), S("x")>>]

PageU == {Absent, S("2"), S("x")} \cup {N(k) : k \in (0 - 1)..MaxPage}

LimitU == {Absent, S("x")} \cup {N(k) : k \in (0 - 1)..MaxPage}

CallApplyPagination ==
    /\ fcall.fn = "apply_pagination"
    /\ ~fcall.done
    /\ fcall' = [fcall EXCEPT !.done = TRUE,
                     !.out = apply_pagination(fcall.args.rows, fcall.args.page,
                                              fcall.args.limit)]
    /\ UNCHANGED <<sheet, cache, now, req, calls, ups, resp>>
    /\ UNCHANGED svars

ReadSheetP ==
    ReadSheetWith({ReadReq(NoWhere, fcall.args.page, fcall.args.limit, "none")})

InitPage ==
    /\ \E n \in 0..MaxTotal, page \in PageU, limit \in LimitU :
          /\ sheet = PageTable(n)
          /\ fcall = Call("apply_pagination",
                          [rows |-> normalize_rows(Headers2, Tail(PageTable(n))),
                           page |-> page, limit |-> limit])
    /\ cache = NoEntry
    /\ now = 0
    /\ req = Idle
    /\ calls = <<>>
    /\ ups = NoUpsert
    /\ resp = NoResp
    /\ NoService

NextPage == CallApplyPagination \/ ReadSheetP \/ Respond

SpecPage == InitPage /\ [][NextPage]_vars

---------------------------------------------------------------------------
(* SpecFilter: _between and compiled predicates on bounded inputs *)

BetweenU ==
    {PyNone, S(""), S("a"), S("b"), N(5), N(10), S("7"), S("yes"), S("no"),
     B(TRUE), S("2024-01-05"), S("2024-02-01"), S("01/03/2024")}

FilterHeaders == <<S("id"), S("status"), S("amount")>>

FilterRowU ==
    {RowDict(FilterHeaders, Padded(FilterHeaders, r)) :
        r \in {<<S("1"), S("open"), S("10")>>, <<S("2"), S("closed"), S("20")>>,
               <<S("3"), S("open")>>, <<N(4), S("Open"), N(15)>>}}

CondU ==
    {Eq("status", S("open")),
     Cond(S("amount"), S("GT"), N(12), Absent),
     Cond(S("id"), Absent, S("1"), Absent),
     Cond(S("amount"), S("between"), Absent, L(<<S(""), S("")>>)),
     Cond(S("amount"), S("between"), L(<<N(5), S("15")>>), Absent),
     Cond(S("status"), S("like"), S("OPE"), Absent),
     Cond(S("id"), S("in"), Absent, L(<<N(2), S("3")>>)),
     Cond(S("amount"), S("is_null"), Absent, Absent)}

List(conds) == CondList("list", conds)

FilterWhereU ==
    {WhereObj(List(<<a, b>>), List(<<c>>)) : a \in CondU, b \in CondU, c \in CondU}
    \cup {AndOnly(<<a, b>>) : a \in CondU, b \in CondU}
    \cup {OrOnly(<<c>>) : c \in CondU}
    \cup {WhereObj(CondList("dict", <<a>>), NoList) : a \in CondU}
    \cup {Payload(AndOnly(<<a>>)) : a \in CondU}
    \cup {AndOnly(<<a, NonDict>>) : a \in CondU}
    \cup {OrOnly(<<NonDict, c>>) : c \in CondU}
    \cup {WhereObj(List(<<a>>), List(<<NonDict>>)) : a \in CondU}
    \cup {WhereObj(NoList, NoList), WhereObj(List(<<>>), CondList("none", <<>>)),
          WhereObj(CondList("other", <<NonDict>>), NoList),
          OrOnly(<<NonDict>>),
          WhereObj(CondList("dict", <<Cond(Absent, Absent, Absent, Absent)>>), NoList),
          NoWhere, OtherWhere, Payload(NoWhere), Payload(OtherWhere)}

CallBetween ==
    /\ fcall.fn = "_between"
    /\ ~fcall.done
    /\ fcall' = [fcall EXCEPT !.done = TRUE,
                     !.out = _between(fcall.args.cell, fcall.args.low,
                                      fcall.args.high)]
    /\ UNCHANGED <<sheet, cache, now, req, calls, ups, resp>>
    /\ UNCHANGED svars

CallPredicate ==
    /\ fcall.fn = "build_predicate"
    /\ ~fcall.done
    /\ fcall' = [fcall EXCEPT !.done = TRUE,
                     !.out = build_predicate(fcall.args.where, fcall.args.row)]
    /\ UNCHANGED <<sheet, cache, now, req, calls, ups, resp>>
    /\ UNCHANGED svars

InitFilter ==
    /\ \/ \E c \in BetweenU, l \in BetweenU, h \in BetweenU :
             fcall = Call("_between", [cell |-> c, low |-> l, high |-> h])
       \/ \E w \in FilterWhereU, row \in FilterRowU :
             fcall = Call("build_predicate", [where |-> w, row |-> row])
    /\ sheet = <<>>
    /\ cache = NoEntry
    /\ now = 0
    /\ req = Idle
    /\ calls = <<>>
    /\ ups = NoUpsert
    /\ resp = NoResp
    /\ NoService

NextFilter == CallBetween \/ CallPredicate

SpecFilter == InitFilter /\ [][NextFilter]_vars

---------------------------------------------------------------------------
(* SpecService: MaxThreads request threads, each calling get_sheets_service *)
(* up to MaxCalls times, in a process that starts with no client            *)

InitService ==
    /\ sheet = <<>>
    /\ cache = NoEntry
    /\ now = 0
    /\ req = Idle
    /\ calls = <<>>
    /\ ups = NoUpsert
    /\ resp = NoResp
    /\ fcall = NoCall
    /\ settings \in {[GOOGLE_SERVICE_ACCOUNT_INFO_B64 |-> v] : v \in {"", "e30="}}
    /\ _CACHED_CREDS = None
    /\ _CACHED_SERVICE = None
    /\ built = 0
    /\ threads = [t \in Threads |-> IdleThread]

NextService ==
    \E t \in Threads : CallService(t) \/ get_sheets_service(t)

SpecService == InitService /\ [][NextService]_vars

---------------------------------------------------------------------------
(* Properties.  The upsert properties are stated on the state an update     *)
(* request leaves: req holds the request and the table it was served on,    *)
(* calls the store calls in order, ups what upsert_rows did, resp the       *)
(* response, sheet the table afterwards.                                    *)

\* the last request is an update that passed validation and entered upsert_rows
Upserting == req # Idle /\ req.r.handler = "update" /\ ups.ran

\* upsert_rows read a table with a header row
ReadTable == Upserting /\ Len(ups.values) >= 1

SnapHeaders == ups.values[1]

\* the 0-based indices of the data rows of the table read
SnapIndices == 0..(Len(ups.values) - 2)

\* cell i of data row idx as the table read holds it, "" past the end of the row
SnapCell(idx, i) ==
    IF i <= Len(ups.values[idx + 2]) THEN ups.values[idx + 2][i] ELSE S("")

PatchItems == req.r.data.kv

\* a patch key names column i; the value the patch gives that column
PatchNames(i) == \E j \in 1..Len(PatchItems) : PatchItems[j].k = SnapHeaders[i].s

PatchValue(i) ==
    PatchItems[CHOOSE j \in 1..Len(PatchItems) : PatchItems[j].k = SnapHeaders[i].s].v

\* the filter of the request on data row idx: [raised, val]
RowMatch(idx) ==
    UpsertMatch(req.r.where, normalize_rows(SnapHeaders, Tail(ups.values))[idx + 1])

\* the filter returned True or False on every data row
Evaluated == ReadTable /\ \A idx \in SnapIndices : RowMatch(idx).raised = ""

MatchSet == {idx \in SnapIndices : RowMatch(idx).val}

\* the patch changes data row idx: in a column it names, its value and the
\* cell differ in text form (the number 5 and the text "5" do not)
Changed(idx) ==
    \E i \in 1..Len(SnapHeaders) :
        PatchNames(i) /\ PyStr(PatchValue(i)) # PyStr(SnapCell(idx, i))

\* the range of data row idx: sheet row idx + 2, column A to the last header's
RangeOf(idx) ==
    req.r.sheet.s \o "!A" \o IntToStr(idx + 2) \o ":"
        \o SubSeq(UpperCase, Len(SnapHeaders), Len(SnapHeaders)) \o IntToStr(idx + 2)

\* the calls after the read
Writes == SubSeq(calls, 2, Len(calls))

\* C1: an update request that passes validation and whose upsert_rows
\* completes with no store call failing gets a success response that carries
\* the updated and appended counts of the upsert, never an error response.
C1_UpdateReturnsCounts ==
    (Upserting /\ ups.raised = "") =>
        /\ resp.kind = "ok"
        /\ resp.updated = ups.updated
        /\ resp.appended = ups.appended

\* an upsert that appended its row is answered with the KeyError response
C1_AppendAnsweredWithError ==
    /\ Upserting
    /\ ups.raised = ""
    /\ ups.appended = 1
    /\ resp = ErrorResp("KeyError", 400)

\* C2: when the table read has a header row and the filter holds on no data
\* row, upsert_rows issues exactly one append call and no update or
\* batchUpdate call; the appended row has as many cells as there are headers,
\* the patch value under each header that is a patch key and "" elsewhere;
\* and the result is updated = 0, appended = 1.
C2_NoMatchAppendsOneRow ==
    (Evaluated /\ MatchSet = {}) =>
        /\ Len(Writes) = 1
        /\ Writes[1].op = "append"
        /\ Len(Writes[1].data) = 1
        /\ Len(Writes[1].data[1].row) = Len(SnapHeaders)
        /\ \A i \in 1..Len(SnapHeaders) :
              Writes[1].data[1].row[i] =
                  IF PatchNames(i) THEN PatchValue(i) ELSE S("")
        /\ (ups.raised = "" => ups.updated = 0 /\ ups.appended = 1)

\* no row of a table of two rows matches, and the patch has a key that is a
\* header and one that is not
C2_Appended ==
    /\ Evaluated
    /\ MatchSet = {}
    /\ Len(ups.values) = 3
    /\ ups.raised = ""
    /\ \E i \in 1..Len(SnapHeaders) : PatchNames(i)
    /\ \E j \in 1..Len(PatchItems) :
          \A i \in 1..Len(SnapHeaders) : PatchItems[j].k # SnapHeaders[i].s
    /\ Len(sheet) = 4

\* every targeted row holds, in each column a patch key names, the patch value
Identical ==
    \A t \in 1..Len(ups.targets) : \A i \in 1..Len(SnapHeaders) :
        PatchNames(i) => PatchValue(i) = SnapCell(ups.targets[t], i)

\* C3: when at least one row matches and every targeted row already holds each
\* patch value in its column, upsert_rows issues no write call (no update, no
\* batchUpdate, no append) and returns updated = 0, appended = 0.
C3_IdenticalPatchWritesNothing ==
    (Evaluated /\ MatchSet # {} /\ Identical) =>
        /\ Writes = <<>>
        /\ ups.raised = ""
        /\ ups.updated = 0
        /\ ups.appended = 0
        /\ sheet = req.table0

\* two targeted rows already hold the value of a patch key that is a header
C3_IdenticalTargets ==
    /\ Evaluated
    /\ Len(ups.targets) >= 2
    /\ Identical
    /\ \E i \in 1..Len(SnapHeaders) : PatchNames(i)

\* the matching rows the patch changes
ChangedMatches == {idx \in MatchSet : Changed(idx)}

\* C4: with update_all and k >= 2 matching rows changed by the patch,
\* upsert_rows issues exactly one write call, a batchUpdate, whose ranges are
\* exactly the ranges of the k changed rows, none of an unchanged or
\* non-matching row, and returns updated = k, appended = 0.
C4_BatchCoversChangedRows ==
    (Evaluated /\ UpdateAll(req.r.multiple) /\ Cardinality(ChangedMatches) >= 2) =>
        /\ Len(Writes) = 1
        /\ Writes[1].op = "batchUpdate"
        /\ Len(Writes[1].data) = Cardinality(ChangedMatches)
        /\ {Writes[1].data[j].range : j \in 1..Len(Writes[1].data)}
              = {RangeOf(idx) : idx \in ChangedMatches}
        /\ (ups.raised = "" =>
              ups.updated = Cardinality(ChangedMatches) /\ ups.appended = 0)

\* three rows match, two of them change
C4_TwoOfThreeChange ==
    /\ Evaluated
    /\ UpdateAll(req.r.multiple)
    /\ Cardinality(MatchSet) = 3
    /\ Cardinality(ChangedMatches) = 2
    /\ ups.raised = ""
    /\ ups.updated = 2

\* the first match in row order
FirstMatch == CHOOSE idx \in MatchSet : \A other \in MatchSet : idx <= other

\* C5: without update_all, upsert_rows targets only the first matching row:
\* it issues at most one write, an update of that row's range; no other
\* matching row is written, also when the first match needs no change; and
\* updated is 0 or 1.
C5_OnlyFirstMatchTargeted ==
    (Evaluated /\ ~UpdateAll(req.r.multiple) /\ MatchSet # {}) =>
        /\ Len(Writes) <= 1
        /\ \A j \in 1..Len(Writes) :
              /\ Writes[j].op = "update"
              /\ Writes[j].range = RangeOf(FirstMatch)
              /\ Len(Writes[j].data) = 1
              /\ Writes[j].data[1].range = RangeOf(FirstMatch)
        /\ (~Changed(FirstMatch) => Writes = <<>>)
        /\ \A idx \in MatchSet \ {FirstMatch} : sheet[idx + 2] = req.table0[idx + 2]
        /\ ups.updated \in {0, 1}
        /\ ups.appended = 0

\* the first match needs no change and a later match would be changed
C5_LaterMatchLeftAlone ==
    /\ Evaluated
    /\ ~UpdateAll(req.r.multiple)
    /\ MatchSet # {}
    /\ ~Changed(FirstMatch)
    /\ \E idx \in MatchSet : Changed(idx)
    /\ ups.raised = ""
    /\ ups.updated = 0

\* a call of build_predicate(where)(row) that was made
PredicateCalled == fcall.fn = "build_predicate" /\ fcall.done

\* the conditions c of a list that all are objects and evaluate on the row
Evaluate(conds) ==
    \A i \in 1..Len(conds) :
        conds[i].isdict /\ match_one(fcall.args.row, conds[i]).raised = ""

Holds(cond) == match_one(fcall.args.row, cond).val

\* a list that is present with the conditions conds, n of them
ListOf(v, n) == v.t = "list" /\ Len(v.items) = n /\ Evaluate(v.items)

C7_WrittenRowKeepsOtherColumns ==
    Upserting =>
        /\ \A j \in 1..Len(Writes) :
              Writes[j].op \in {"update", "batchUpdate"} =>
                 \A d \in 1..Len(Writes[j].data) :
                    \E idx \in SnapIndices :
                       /\ Writes[j].data[d].range = RangeOf(idx)
                       /\ Len(Writes[j].data[d].row) = Len(SnapHeaders)
                       /\ \A i \in 1..Len(SnapHeaders) :
                             ~PatchNames(i) =>
                                Writes[j].data[d].row[i] = SnapCell(idx, i)
        /\ (ReadTable /\ \A i \in 1..Len(SnapHeaders) : ~PatchNames(i)) =>
              \A j \in 1..Len(Writes) : Writes[j].op = "append"
        /\ ReadTable =>
              \A idx \in SnapIndices :
                 \/ sheet[idx + 2] = req.table0[idx + 2]
                 \/ /\ Len(sheet[idx + 2]) = Len(SnapHeaders)
                    /\ \A i \in 1..Len(SnapHeaders) :
                          ~PatchNames(i) => sheet[idx + 2][i] = SnapCell(idx, i)

\* a short row is written: a patch of a header key and a key that is no header,
\* and a column the patch does not name that the source row lacks
C7_ShortRowWritten ==
    /\ Upserting
    /\ ups.raised = ""
    /\ \E j \in 1..Len(Writes) :
          /\ Writes[j].op \in {"update", "batchUpdate"}
          /\ \E d \in 1..Len(Writes[j].data), idx \in SnapIndices :
                /\ Writes[j].data[d].range = RangeOf(idx)
                /\ Len(ups.values[idx + 2]) < Len(SnapHeaders)
                /\ \E i \in 1..Len(SnapHeaders) :
                      /\ ~PatchNames(i)
                      /\ i > Len(ups.values[idx + 2])
                      /\ Writes[j].data[d].row[i] = S("")
                      /\ sheet[idx + 2][i] = S("")

\* C8: every upsert_rows call reads the table from the store before it
\* decides what to write, whether or not the cache holds an entry within its
\* time-to-live; it works on what the store returned, never on the cached
\* values, and it leaves the cache as it was.
C8_UpsertReadsRemote ==
    Upserting =>
        /\ Len(calls) >= 1
        /\ calls[1].op = "get"
        /\ calls[1].range = req.r.sheet.s
        /\ ups.remote
        /\ (req.r.fail # "get" => ups.values = req.table0)
        /\ cache = req.cache0

\* an upsert served while the cache holds, within its time-to-live, values
\* that differ from the table
C8_StaleEntryBypassed ==
    /\ Upserting
    /\ req.r.fail = "none"
    /\ req.cache0.has
    /\ req.now0 - req.cache0.ts <= _READ_CACHE_TTL_SECONDS
    /\ req.cache0.values # req.table0
    /\ ups.values = req.table0

\* a call of _between(cell, low, high) that was made
BetweenCalled == fcall.fn = "_between" /\ fcall.done

\* C9: between(cell, low, high) returns a boolean for every input, also when
\* the common kind is null or bool, and false whenever the kinds of
\* (cell, low) and (cell, high) differ.
C9_BetweenReturnsBoolean ==
    BetweenCalled =>
        /\ fcall.out.raised = ""
        /\ fcall.out.val \in BOOLEAN
        /\ (_coerce_pair(fcall.args.cell, fcall.args.low).kind
               # _coerce_pair(fcall.args.cell, fcall.args.high).kind)
              => ~fcall.out.val

\* _between(None, None, None) raised TypeError
C9_NullKindRaises ==
    /\ BetweenCalled
    /\ fcall.args = [cell |-> PyNone, low |-> PyNone, high |-> PyNone]
    /\ fcall.out = Raise("TypeError")

\* page and limit as the claim reads them: page below 1 is 1, limit below 0 is 0
ClampedPage == IF fcall.args.page.n < 1 THEN 1 ELSE fcall.args.page.n

ClampedLimit == IF fcall.args.limit.n < 0 THEN 0 ELSE fcall.args.limit.n

\* the offsets [first, last) of the page
PageFirst == IF ClampedLimit > 0 THEN (ClampedPage - 1) * ClampedLimit ELSE 0

PageLast ==
    IF ClampedLimit > 0 THEN PageFirst + ClampedLimit ELSE Len(fcall.args.rows)

\* the rows of seq at the offsets of the page, in order
PageRows(seq) ==
    [j \in 1..Cardinality({k \in 1..Len(seq) : PageFirst < k /\ k <= PageLast})
        |-> seq[PageFirst + j]]

\* page and limit are integers
IntegerPage == fcall.args.page.t = "num" /\ fcall.args.limit.t = "num"

\* the read endpoint answered the request with the page and limit of fcall
ReadAnswered == req # Idle /\ req.r.handler = "read" /\ resp.kind = "ok"

\* C10: for a row sequence of length total, pagination returns the rows at
\* offsets [(page-1)*limit, (page-1)*limit+limit) in order and hasNextPage
\* iff (page-1)*limit+limit < total; for limit = 0 all rows and hasNextPage
\* false; page below 1 counts as 1, limit below 0 as 0.  apply_pagination and
\* the read endpoint agree, on every page and limit given.
C10_PaginationSlice ==
    /\ (fcall.done /\ IntegerPage) =>
          /\ fcall.out.rows = PageRows(fcall.args.rows)
          /\ fcall.out.hasNextPage = (PageLast < Len(fcall.args.rows))
          /\ fcall.out.total = Len(fcall.args.rows)
          /\ fcall.out.page = ClampedPage
          /\ fcall.out.limit = ClampedLimit
          /\ (ClampedLimit = 0 =>
                fcall.out.rows = fcall.args.rows /\ ~fcall.out.hasNextPage)
    /\ (ReadAnswered /\ IntegerPage) =>
          /\ resp.rows = PageRows(normalize_rows(req.table0[1], Tail(req.table0)))
          /\ resp.hasNextPage = (PageLast < Len(req.table0) - 1)
    /\ (ReadAnswered /\ fcall.done) =>
          /\ resp.rows = fcall.out.rows
          /\ resp.total = fcall.out.total
          /\ resp.limit = fcall.out.limit
          /\ resp.hasNextPage = fcall.out.hasNextPage

\* page 2 of 5 rows with limit 2: both return rows 3 and 4 and announce a next page
C10_SecondPageOfFive ==
    /\ fcall.done
    /\ ReadAnswered
    /\ fcall.args.page = N(2)
    /\ fcall.args.limit = N(2)
    /\ Len(fcall.args.rows) = 5
    /\ fcall.out.rows = SubSeq(fcall.args.rows, 3, 4)
    /\ fcall.out.hasNextPage
    /\ resp.rows = fcall.out.rows

\* the rows upsert_rows targets: every match with update_all, else the first
TargetSet == IF UpdateAll(req.r.multiple) THEN MatchSet ELSE {FirstMatch}

\* the targeted rows the patch changes
ChangedTargets == {idx \in TargetSet : Changed(idx)}

\* C11: whenever exactly one targeted row needs writing, upsert_rows issues
\* exactly one write call, an update (a single range write) of that row's
\* range and no batchUpdate, also with update_all and several matching rows of
\* which the patch changes one.
C11_OneChangedRowSingleWrite ==
    (Evaluated /\ MatchSet # {} /\ Cardinality(ChangedTargets) = 1) =>
        /\ Len(Writes) = 1
        /\ Writes[1].op = "update"
        /\ \A idx \in ChangedTargets : Writes[1].range = RangeOf(idx)

\* with update_all two rows match, the patch changes one of them, and the one
\* write call is a batchUpdate of that row's range
C11_BatchOfOneRow ==
    /\ Evaluated
    /\ UpdateAll(req.r.multiple)
    /\ Cardinality(MatchSet) = 2
    /\ Cardinality(ChangedTargets) = 1
    /\ Len(Writes) = 1
    /\ Writes[1].op = "batchUpdate"
    /\ Len(Writes[1].data) = 1
    /\ \A idx \in ChangedTargets : Writes[1].data[1].range = RangeOf(idx)
    /\ ups.raised = ""
    /\ ups.updated = 1

\* a list value without its entries that are no objects
ObjectsOnly(v) ==
    IF v.t = "list" THEN CondList("list", SelectSeq(v.items, LAMBDA c : c.isdict))
    ELSE v

\* a where clause with the non-object entries of its two lists removed
WithoutNonObjects(w) ==
    IF w.t = "dict" THEN WhereObj(ObjectsOnly(w.and), ObjectsOnly(w.or)) ELSE w

\* the same for a payload that carries the where clause under its "where" key
Pruned(payload) ==
    IF payload.t = "payload" THEN Payload(WithoutNonObjects(payload.where))
    ELSE WithoutNonObjects(payload)

\* C12: on every row, the predicate compiled from a where clause gives what
\* the predicate compiled from the same clause without the entries of its
\* "and" and "or" lists that are no objects gives: such entries are ignored.
C12_NonObjectEntriesIgnored ==
    PredicateCalled =>
        fcall.out = build_predicate(Pruned(fcall.args.where), fcall.args.row)

\* and = [A, 5] where A holds on the row: the predicate is false, while the
\* predicate of and = [A] is true
C12_NonObjectFailsAnd ==
    /\ PredicateCalled
    /\ fcall.args.where.t = "dict"
    /\ fcall.args.where.and.t = "list"
    /\ Len(fcall.args.where.and.items) = 2
    /\ fcall.args.where.and.items[1].isdict
    /\ ~fcall.args.where.and.items[2].isdict
    /\ fcall.args.where.or.t = "absent"
    /\ match_one(fcall.args.row, fcall.args.where.and.items[1]) = Ret(TRUE)
    /\ fcall.out = Ret(FALSE)
    /\ build_predicate(Pruned(fcall.args.where), fcall.args.row) = Ret(TRUE)

\* the clients the calls of get_sheets_service returned so far
Returned ==
    UNION {{threads[t].ret[i] : i \in DOMAIN threads[t].ret} : t \in Threads}

\* C13: however the request threads that call get_sheets_service interleave,
\* the process constructs at most one store client, and every call that
\* returns gives that one client.
C13_ServiceBuiltOnce ==
    /\ built <= 1
    /\ Cardinality(Returned) <= 1

\* two threads each found no client, each constructed one, and their calls
\* returned two different clients
C13_TwoClients ==
    /\ built = 2
    /\ \E t \in Threads, u \in Threads :
          /\ t # u
          /\ Len(threads[t].ret) >= 1
          /\ Len(threads[u].ret) >= 1
          /\ threads[t].ret[1] # threads[u].ret[1]

===========================================================================
